---- MODULE Spec2Model ----
(***************************************************************************)
(* Model of verify_credentials (src/login.py, lines 17-32): the credential *)
(* check of the Smart-Bus-Stop login form.  Each call is a process that    *)
(* walks the statements of the function one at a time; the MySQL server    *)
(* and the passlib hasher are the environment.  Every call into the MySQL  *)
(* connector may raise; the hasher raises on a hash it cannot identify.    *)
(***************************************************************************)
EXTENDS Integers, Sequences, FiniteSets, TLC

(* ------------------------------ bounds -------------------------------- *)

\* number of verify_credentials calls that may be in progress at once
NumCalls == 2

Calls == 1..NumCalls

(* --------------------------- the environment --------------------------- *)

\* bcrypt reads at most this many bytes of a secret
BcryptMaxBytes == 72

\* The part of a secret that bcrypt hashes: its first 72 bytes.
Truncate72(secret) ==
    IF Len(secret) > BcryptMaxBytes
    THEN SubSeq(secret, 1, BcryptMaxBytes)
    ELSE secret

\* A bcrypt hash as passlib stores it: the scheme marker, the salt and the
\* digest, which stands for the truncated secret it was computed from.
BcryptHash(salt, secret) ==
    [scheme |-> "bcrypt", salt |-> salt, digest |-> Truncate72(secret)]

\* A hashed_password value that is not a hash of any configured scheme.
MalformedHash == [scheme |-> "unknown", salt |-> "", digest |-> ""]

\* 72 bytes
A72 == "aaaaaaaaaaaaaaaaaaaaaaaaaaaaaaaaaaaaaaaaaaaaaaaaaaaaaaaaaaaaaaaaaaaaaaaa"

\* The secret each account was provisioned with (the plaintext is not kept
\* in the store).
ProvisionedSecret ==
    [e \in {"alice@example.com", "erin@example.com"} |->
        IF e = "alice@example.com" THEN "s3cr3t" ELSE A72 \o "X"]

\* The rows of table users (columns id, email, hashed_password); email is
\* unique.
Users ==
    { [id |-> 42, email |-> "alice@example.com",
       hashed_password |-> BcryptHash("s1", ProvisionedSecret["alice@example.com"])],
      [id |-> 57, email |-> "erin@example.com",
       hashed_password |-> BcryptHash("s2", ProvisionedSecret["erin@example.com"])],
      [id |-> 99, email |-> "dave@example.com",
       hashed_password |-> MalformedHash] }

\* The (email, password) pairs the caller may pass: a record with its own
\* secret and with another one, an identifier without a record under either
\* secret, a record with a secret that differs from its own after the 72nd
\* byte, and the record whose hash is malformed.
Requests ==
    { <<"alice@example.com", "s3cr3t">>, <<"alice@example.com", "hunter2">>,
      <<"bob@example.com", "s3cr3t">>, <<"bob@example.com", "hunter2">>,
      <<"erin@example.com", A72 \o "Y">>, <<"dave@example.com", "s3cr3t">> }

\* Python's None (fetchone() when no row matches)
None == [py |-> "None"]

\* An exception object: mro is the linearised ancestry of its class (the
\* class first, then its bases up to BaseException), cls the class itself
\* and msg is str(e).
Exc(mro, msg) == [cls |-> mro[1], mro |-> mro, msg |-> msg]

\* mysql.connector.Error derives from Exception
MySQLError(msg) ==
    Exc(<<"mysql.connector.Error", "Exception", "BaseException">>, msg)

OSError(msg) == Exc(<<"OSError", "Exception", "BaseException">>, msg)

\* passlib.exc.UnknownHashError derives from ValueError
UnknownHashError ==
    Exc(<<"passlib.exc.UnknownHashError", "ValueError", "Exception",
          "BaseException">>,
        "hash could not be identified")

\* What a statement of lines 19-24 may raise: an error of the connector or
\* an error of the socket under it.  The text is whatever the server or the
\* driver puts there; the least favourable texts are the ones the function
\* itself returns on its other paths.
StoreFaults == {MySQLError("User not found"), OSError("Incorrect password")}

\* issubclass(type(e), base): base is the class of e or one of its ancestors
IsInstance(exc, base) == \E i \in DOMAIN exc.mro : exc.mro[i] = base

(* ------------------------- results of a call --------------------------- *)

NoResult == [kind |-> "none"]

\* return ok, info
Returned(ok, info) == [kind |-> "return", ok |-> ok, info |-> info]

\* the exception leaves verify_credentials
Propagated(exc) == [kind |-> "raise", exc |-> exc]

(* ------------------------- the code's helpers -------------------------- *)

\* Mutation of SelectByEmail: the WHERE clause is lost and fetchone() yields
\* the first row of the table by id.
SelectFirstRow(users, e) ==
    CHOOSE r \in users : \A q \in users : r.id <= q.id

\* line 21-22: SELECT id, email, hashed_password FROM users WHERE email=%s,
\* then fetchone(): the matching row as a dict, or None.
SelectByEmail(users, e) ==
    IF \E r \in users : r.email = e
    THEN CHOOSE r \in users : r.email = e
    ELSE None

\* line 25: "not row" is true for None; a dict with three keys is truthy.
Truthy(row) == row # None

\* line 27: pwd_context.verify(password, hash) raises on a hash of no
\* configured scheme ...
VerifyRaises(hash) == hash.scheme # "bcrypt"

\* ... and otherwise tells whether the first 72 bytes of the password
\* reproduce the digest.
PwdVerify(pw, hash) == Truncate72(pw) = hash.digest

\* Mutation of DbErrorText: the prefix is dropped, str(e) is returned.
DbErrorTextBare(exc) == exc.msg

\* line 32: f"DB error: {e}"
DbErrorText(exc) == "DB error: " \o exc.msg

\* Mutation of Catches: except mysql.connector.Error
CatchesMySQLOnly(exc) == IsInstance(exc, "mysql.connector.Error")

\* Mutation of Catches: except ValueError
CatchesValueErrorOnly(exc) == IsInstance(exc, "ValueError")

\* line 31: except Exception
Catches(exc) == IsInstance(exc, "Exception")

\* lines 31-32: what the call ends with when a statement of the try block
\* raises exc.
ExceptHandler(exc) ==
    IF Catches(exc)
    THEN Returned(FALSE, DbErrorText(exc))
    ELSE Propagated(exc)

\* Mutation of CheckRow: the branches of line 27 are exchanged.
CheckRowInverted(row, pw) ==
    IF ~Truthy(row)
    THEN Returned(FALSE, "User not found")
    ELSE IF VerifyRaises(row.hashed_password)
    THEN ExceptHandler(UnknownHashError)
    ELSE IF ~PwdVerify(pw, row.hashed_password)
    THEN Returned(TRUE, row.id)
    ELSE Returned(FALSE, "Incorrect password")

\* Mutation of CheckRow: the test of line 25 is missing, so that
\* row["hashed_password"] raises TypeError on None.
CheckRowNoNoneTest(row, pw) ==
    IF ~Truthy(row)
    THEN ExceptHandler(Exc(<<"TypeError", "Exception", "BaseException">>,
                           "'NoneType' object is not subscriptable"))
    ELSE IF VerifyRaises(row.hashed_password)
    THEN ExceptHandler(UnknownHashError)
    ELSE IF PwdVerify(pw, row.hashed_password)
    THEN Returned(TRUE, row.id)
    ELSE Returned(FALSE, "Incorrect password")

\* Mutation of CheckRow: one message for a missing user and a wrong password.
CheckRowGeneric(row, pw) ==
    IF ~Truthy(row)
    THEN Returned(FALSE, "Invalid email or password")
    ELSE IF VerifyRaises(row.hashed_password)
    THEN ExceptHandler(UnknownHashError)
    ELSE IF PwdVerify(pw, row.hashed_password)
    THEN Returned(TRUE, row.id)
    ELSE Returned(FALSE, "Invalid email or password")

\* lines 25-30: the outcome once the row is fetched and both closes are done.
CheckRow(row, pw) ==
    IF ~Truthy(row)
    THEN Returned(FALSE, "User not found")
    ELSE IF VerifyRaises(row.hashed_password)
    THEN ExceptHandler(UnknownHashError)
    ELSE IF PwdVerify(pw, row.hashed_password)
    THEN Returned(TRUE, row.id)
    ELSE Returned(FALSE, "Incorrect password")

\* line 27: what pwd_context.verify does for this row and password
\* ("none": it is not invoked).
HasherReport(row, pw) ==
    IF ~Truthy(row) THEN "none"
    ELSE IF VerifyRaises(row.hashed_password) THEN "raise"
    ELSE IF PwdVerify(pw, row.hashed_password) THEN "match"
    ELSE "mismatch"

(* ------------------------------- state --------------------------------- *)

VARIABLES
    store,      \* rows of table users
    pc,         \* pc[c]: the statement call c executes next
    email,      \* email[c], password[c]: the arguments of call c
    password,
    conn,       \* conn[c]: "none", "open" or "closed" (the connection of line 19)
    cur,        \* cur[c]: "none", "open" or "closed" (the cursor of line 20)
    row,        \* row[c]: the local variable row
    result,     \* result[c]: what the call ended with
    queries,    \* queries[c]: statements call c has sent to the server
    verifies,   \* verifies[c]: times call c has invoked pwd_context.verify
    verdict,    \* verdict[c]: what pwd_context.verify did in call c: "none"
                \* (not invoked), "match", "mismatch" or "raise"
    raisedAt,   \* raisedAt[c]: the statement of call c that raised, or "none"
    exc         \* exc[c]: the exception e of line 31, or None

vars == <<store, pc, email, password, conn, cur, row, result, queries,
          verifies, verdict, raisedAt, exc>>

Init ==
    /\ store = Users
    /\ pc = [c \in Calls |-> "idle"]
    /\ email = [c \in Calls |-> ""]
    /\ password = [c \in Calls |-> ""]
    /\ conn = [c \in Calls |-> "none"]
    /\ cur = [c \in Calls |-> "none"]
    /\ row = [c \in Calls |-> None]
    /\ result = [c \in Calls |-> NoResult]
    /\ queries = [c \in Calls |-> 0]
    /\ verifies = [c \in Calls |-> 0]
    /\ verdict = [c \in Calls |-> "none"]
    /\ raisedAt = [c \in Calls |-> "none"]
    /\ exc = [c \in Calls |-> None]

(* ------------------------------ actions -------------------------------- *)

\* A statement at pc[c] raises exc: control goes to line 31, the call ends.
Raise(c, exc_) ==
    /\ result' = [result EXCEPT ![c] = ExceptHandler(exc_)]
    /\ raisedAt' = [raisedAt EXCEPT ![c] = pc[c]]
    /\ exc' = [exc EXCEPT ![c] = exc_]
    /\ pc' = [pc EXCEPT ![c] = "done"]

\* line 17: verify_credentials(e, pw) is entered with a fresh frame
Call(c, e, pw) ==
    /\ pc[c] = "idle"
    /\ pc' = [pc EXCEPT ![c] = "connect"]
    /\ email' = [email EXCEPT ![c] = e]
    /\ password' = [password EXCEPT ![c] = pw]
    /\ UNCHANGED <<store, conn, cur, row, result, queries, verifies, verdict,
                   raisedAt, exc>>

\* line 19: conn = mysql.connector.connect(**DB_CONFIG)
Connect(c) ==
    /\ pc[c] = "connect"
    /\ \/ /\ conn' = [conn EXCEPT ![c] = "open"]
          /\ pc' = [pc EXCEPT ![c] = "cursor"]
          /\ UNCHANGED <<result, raisedAt, exc>>
       \/ /\ \E f \in StoreFaults : Raise(c, f)
          /\ UNCHANGED conn
    /\ UNCHANGED <<store, email, password, cur, row, queries, verifies, verdict>>

\* line 20: cur = conn.cursor(dictionary=True)
Cursor(c) ==
    /\ pc[c] = "cursor"
    /\ \/ /\ cur' = [cur EXCEPT ![c] = "open"]
          /\ pc' = [pc EXCEPT ![c] = "execute"]
          /\ UNCHANGED <<result, raisedAt, exc>>
       \/ /\ \E f \in StoreFaults : Raise(c, f)
          /\ UNCHANGED cur
    /\ UNCHANGED <<store, email, password, conn, row, queries, verifies, verdict>>

\* Mutation of Execute: the statement is sent again when it fails.
ExecuteRetry(c) ==
    /\ pc[c] = "execute"
    /\ \/ /\ queries' = [queries EXCEPT ![c] = @ + 1]
          /\ pc' = [pc EXCEPT ![c] = "fetchone"]
          /\ UNCHANGED <<result, raisedAt, exc>>
       \/ /\ queries' = [queries EXCEPT ![c] = @ + 2]
          /\ \E f \in StoreFaults : Raise(c, f)
    /\ UNCHANGED <<store, email, password, conn, cur, row, verifies, verdict>>

\* line 21: cur.execute("SELECT ... WHERE email=%s", (email,))
Execute(c) ==
    /\ pc[c] = "execute"
    /\ queries' = [queries EXCEPT ![c] = @ + 1]
    /\ \/ /\ pc' = [pc EXCEPT ![c] = "fetchone"]
          /\ UNCHANGED <<result, raisedAt, exc>>
       \/ \E f \in StoreFaults : Raise(c, f)
    /\ UNCHANGED <<store, email, password, conn, cur, row, verifies, verdict>>

\* Mutation of FetchOne: row is a module-level variable shared by all calls.
FetchOneGlobalRow(c) ==
    /\ pc[c] = "fetchone"
    /\ \/ /\ row' = [k \in Calls |-> SelectByEmail(store, email[c])]
          /\ pc' = [pc EXCEPT ![c] = "cur_close"]
          /\ UNCHANGED <<result, raisedAt, exc>>
       \/ /\ \E f \in StoreFaults : Raise(c, f)
          /\ UNCHANGED row
    /\ UNCHANGED <<store, email, password, conn, cur, queries, verifies, verdict>>

\* line 22: row = cur.fetchone()
FetchOne(c) ==
    /\ pc[c] = "fetchone"
    /\ \/ /\ row' = [row EXCEPT ![c] = SelectByEmail(store, email[c])]
          /\ pc' = [pc EXCEPT ![c] = "cur_close"]
          /\ UNCHANGED <<result, raisedAt, exc>>
       \/ /\ \E f \in StoreFaults : Raise(c, f)
          /\ UNCHANGED row
    /\ UNCHANGED <<store, email, password, conn, cur, queries, verifies, verdict>>

\* line 23: cur.close()
CurClose(c) ==
    /\ pc[c] = "cur_close"
    /\ \/ /\ cur' = [cur EXCEPT ![c] = "closed"]
          /\ pc' = [pc EXCEPT ![c] = "conn_close"]
          /\ UNCHANGED <<result, raisedAt, exc>>
       \/ /\ \E f \in StoreFaults : Raise(c, f)
          /\ UNCHANGED cur
    /\ UNCHANGED <<store, email, password, conn, row, queries, verifies, verdict>>

\* line 24: conn.close()
ConnClose(c) ==
    /\ pc[c] = "conn_close"
    /\ \/ /\ conn' = [conn EXCEPT ![c] = "closed"]
          /\ pc' = [pc EXCEPT ![c] = "check_row"]
          /\ UNCHANGED <<result, raisedAt, exc>>
       \/ /\ \E f \in StoreFaults : Raise(c, f)
          /\ UNCHANGED conn
    /\ UNCHANGED <<store, email, password, cur, row, queries, verifies, verdict>>

\* lines 25-30: if not row ... if pwd_context.verify(...) ... else ...
Compare(c) ==
    /\ pc[c] = "check_row"
    /\ pc' = [pc EXCEPT ![c] = "done"]
    /\ result' = [result EXCEPT ![c] = CheckRow(row[c], password[c])]
    /\ verifies' = [verifies EXCEPT ![c] = IF Truthy(row[c]) THEN @ + 1 ELSE @]
    /\ verdict' = [verdict EXCEPT ![c] = HasherReport(row[c], password[c])]
    /\ IF Truthy(row[c]) /\ VerifyRaises(row[c].hashed_password)
       THEN /\ raisedAt' = [raisedAt EXCEPT ![c] = "verify"]
            /\ exc' = [exc EXCEPT ![c] = UnknownHashError]
       ELSE UNCHANGED <<raisedAt, exc>>
    /\ UNCHANGED <<store, email, password, conn, cur, row, queries>>

\* line 38: the caller has the result; the frame of the call is gone and the
\* caller may call again.
Return(c) ==
    /\ pc[c] = "done"
    /\ pc' = [pc EXCEPT ![c] = "idle"]
    /\ email' = [email EXCEPT ![c] = ""]
    /\ password' = [password EXCEPT ![c] = ""]
    /\ conn' = [conn EXCEPT ![c] = "none"]
    /\ cur' = [cur EXCEPT ![c] = "none"]
    /\ row' = [row EXCEPT ![c] = None]
    /\ result' = [result EXCEPT ![c] = NoResult]
    /\ queries' = [queries EXCEPT ![c] = 0]
    /\ verifies' = [verifies EXCEPT ![c] = 0]
    /\ verdict' = [verdict EXCEPT ![c] = "none"]
    /\ raisedAt' = [raisedAt EXCEPT ![c] = "none"]
    /\ exc' = [exc EXCEPT ![c] = None]
    /\ UNCHANGED store

Next ==
    \E c \in Calls :
        \/ \E rq \in Requests : Call(c, rq[1], rq[2])
        \/ Connect(c)
        \/ Cursor(c)
        \/ Execute(c)
        \/ FetchOne(c)
        \/ CurClose(c)
        \/ ConnClose(c)
        \/ Compare(c)
        \/ Return(c)

Spec == Init /\ [][Next]_vars

(* --------------------- the function run on its own --------------------- *)

\* lines 17-32 executed without interruption: fault is the exception a
\* statement of lines 19-24 raises, or None when they all complete.
RunAlone(e, pw, users, fault) ==
    IF fault # None
    THEN ExceptHandler(fault)
    ELSE CheckRow(SelectByEmail(users, e), pw)

(* ------------------------- vocabulary of claims ------------------------ *)

Done(c) == pc[c] = "done"

IsSuccess(res) == res.kind = "return" /\ res.ok

IsFailure(res) == res.kind = "return" /\ ~res.ok

\* the statements of the store lookup that the claims name as failing
QuerySteps == {"connect", "cursor", "execute", "fetchone"}

\* every statement that talks to the store (lines 19-24)
StoreSteps == QuerySteps \cup {"cur_close", "conn_close"}

RecordExists(e) == \E r \in store : r.email = e

\* str(e) of every exception the environment raises
AllDetails == {f.msg : f \in StoreFaults} \cup {UnknownHashError.msg}

\* Failure(StoreError(details)): ok is False and the text is the DB error
\* prefix followed by the details
IsStoreError(res) ==
    /\ IsFailure(res)
    /\ \E d \in AllDetails : res.info = "DB error: " \o d

IsNotFound(res) == IsFailure(res) /\ res.info = "User not found"

IsBadSecret(res) == IsFailure(res) /\ res.info = "Incorrect password"

\* the reason a finished call failed, read off the path it took
Reason(c) ==
    IF raisedAt[c] # "none" THEN "StoreError"
    ELSE IF verdict[c] = "none" THEN "NotFound"
    ELSE IF verdict[c] = "mismatch" THEN "BadSecret"
    ELSE "Success"

(* ------------------------------- claims -------------------------------- *)

\* C1: a finished call returned Success (True, id) if and only if a record
\* exists for its identifier and the hasher reported that the secret matches
\* the stored hash; no record, a mismatch, a store failure and a hasher
\* failure all end in something else.
C1_SuccessIffRecordAndMatch ==
    \A c \in Calls :
        Done(c) =>
            (IsSuccess(result[c]) <=>
                (RecordExists(email[c]) /\ verdict[c] = "match"))

C1_Witness ==
    \E c \in Calls :
        Done(c) /\ IsSuccess(result[c]) /\ verdict[c] = "match"

\* C2: a call that has ended never still holds the connection it opened:
\* the connection is released on every exit path.
C2_ConnectionReleasedOnExit ==
    \A c \in Calls : Done(c) => conn[c] # "open"

\* C3: when connect, cursor, execute or fetchone raises, the call returns
\* Failure(StoreError) and not Success, NotFound or BadSecret.
C3_StoreFailureIsStoreError ==
    \A c \in Calls :
        (Done(c) /\ raisedAt[c] \in QuerySteps) =>
            /\ IsStoreError(result[c])
            /\ result[c] = Returned(FALSE, "DB error: " \o exc[c].msg)
            /\ ~IsSuccess(result[c])
            /\ ~IsNotFound(result[c])
            /\ ~IsBadSecret(result[c])

C3_Witness ==
    \E c \in Calls :
        /\ Done(c)
        /\ raisedAt[c] = "execute"
        /\ exc[c].msg = "User not found"
        /\ RecordExists(email[c])

\* C4: when the lookup completes without error and the store has no record
\* for the identifier, the call returns Failure(NotFound) whatever the secret
\* and the hasher is not invoked.
C4_NoRecordIsNotFound ==
    \A c \in Calls :
        (Done(c) /\ raisedAt[c] \notin StoreSteps /\ ~RecordExists(email[c])) =>
            /\ result[c] = Returned(FALSE, "User not found")
            /\ verifies[c] = 0

C4_Witness ==
    \E c, k \in Calls :
        /\ Done(c) /\ Done(k)
        /\ raisedAt[c] = "none" /\ raisedAt[k] = "none"
        /\ ~RecordExists(email[c]) /\ ~RecordExists(email[k])
        /\ password[c] # password[k]

\* C5 as stated: for an existing record with a well-formed hash, every
\* secret other than the one the account was provisioned with ends in
\* Failure(BadSecret).
C5_AnyOtherSecretIsBadSecret ==
    \A c \in Calls :
        (/\ Done(c)
         /\ raisedAt[c] = "none"
         /\ email[c] \in DOMAIN ProvisionedSecret
         /\ password[c] # ProvisionedSecret[email[c]]) =>
            result[c] = Returned(FALSE, "Incorrect password")

\* C5 amended: when a record exists and the hasher reports that the secret
\* does not match its hash, the call returns Failure(BadSecret), not
\* NotFound, StoreError or Success.
C5_MismatchIsBadSecret ==
    \A c \in Calls :
        (Done(c) /\ RecordExists(email[c]) /\ verdict[c] = "mismatch") =>
            /\ result[c] = Returned(FALSE, "Incorrect password")
            /\ ~IsNotFound(result[c])
            /\ ~IsStoreError(result[c])
            /\ ~IsSuccess(result[c])

C5_Witness ==
    \E c \in Calls :
        /\ Done(c)
        /\ RecordExists(email[c])
        /\ verdict[c] = "mismatch"
        /\ verifies[c] = 1

\* C6: the id a Success carries is the id of the record the store holds for
\* the identifier of that call, which is the row the call fetched.
C6_SuccessCarriesRecordId ==
    \A c \in Calls :
        (Done(c) /\ IsSuccess(result[c])) =>
            \E r \in store :
                /\ r.email = email[c]
                /\ r = row[c]
                /\ result[c].info = r.id

C6_Witness ==
    \E c, k \in Calls :
        /\ Done(c) /\ Done(k)
        /\ IsSuccess(result[c]) /\ IsSuccess(result[k])
        /\ result[c].info = 42
        /\ result[k].info = 57
        /\ password[k] # ProvisionedSecret[email[k]]

\* C7: two finished calls that failed for different reasons (StoreError,
\* NotFound, BadSecret) hold different result values, whatever the text of
\* the error.
C7_FailureReasonsDistinct ==
    \A c, k \in Calls :
        (/\ Done(c) /\ Done(k)
         /\ Reason(c) # "Success" /\ Reason(k) # "Success"
         /\ Reason(c) # Reason(k)) =>
            result[c] # result[k]

C7_Witness ==
    \E c, k \in Calls :
        /\ Done(c) /\ Done(k)
        /\ Reason(c) = "StoreError" /\ exc[c].msg = "User not found"
        /\ Reason(k) = "NotFound"

\* C8: no call raises to its caller: every finished call holds a returned
\* pair whose first component is True or False, and when the hasher raises
\* the pair is the DB error failure, not BadSecret or Success.
C8_NeverRaises ==
    \A c \in Calls :
        Done(c) =>
            /\ result[c].kind = "return"
            /\ result[c].ok \in BOOLEAN
            /\ verdict[c] = "raise" =>
                   /\ IsStoreError(result[c])
                   /\ result[c] = Returned(FALSE, DbErrorText(UnknownHashError))

C8_Witness ==
    \E c \in Calls :
        Done(c) /\ verdict[c] = "raise" /\ raisedAt[c] = "verify"

\* C9: a call sends at most one statement to the store, exactly one once it
\* is past line 21, never a second one, and no step of any call changes the
\* rows of the store.
C9_OneReadNoWrite ==
    /\ [](\A c \in Calls :
            /\ queries[c] <= 1
            /\ pc[c] \in {"fetchone", "cur_close", "conn_close", "check_row"}
                   => queries[c] = 1
            /\ (Done(c) /\ raisedAt[c] \notin {"connect", "cursor"})
                   => queries[c] = 1)
    /\ [][store' = store]_vars

C9_Witness ==
    \E c \in Calls :
        Done(c) /\ queries[c] = 1 /\ raisedAt[c] = "none" /\ store = Users

\* C10: whatever the interleaving with the other calls, a finished call holds
\* the result the function gives for its own arguments, the store and the
\* fault its own store statements met, as if it had run alone.
C10_CallsIndependent ==
    \A c \in Calls :
        Done(c) =>
            result[c] = RunAlone(email[c], password[c], store,
                                 IF raisedAt[c] \in StoreSteps
                                 THEN exc[c] ELSE None)

C10_Witness ==
    \E c, k \in Calls :
        /\ c # k
        /\ Done(c) /\ IsSuccess(result[c])
        /\ pc[k] = "cur_close"
        /\ email[k] # email[c]
        /\ row[k] # row[c]
====
